---- MODULE Spec2Model ----
(***************************************************************************)
(* A model of PLAT: plat/core.py (run_trajectory, the forward Euler        *)
(* trajectory integrator) and plat/met_handler.py (MetDataset: opening a   *)
(* file, normalizing variable names, subsetting with a history log).       *)
(*                                                                         *)
(* Floating point numbers are modelled as integers on a grid whose spacing *)
(* is 2, so that a position can lie exactly between two grid points; a     *)
(* float is the one-element sequence <<x>> and NaN is the empty sequence.  *)
(***************************************************************************)
EXTENDS Integers, Sequences, FiniteSets, TLC

VARIABLES
    \* ---- run_trajectory (plat/core.py)
    starting_point,   \* [lat, lon]: the argument
    velocity_field,   \* the argument: data variable name -> values on GridLat x GridLon
    num_steps,        \* the argument
    trajectory_lat,   \* the pre-allocated array of latitudes
    trajectory_lon,   \* the pre-allocated array of longitudes
    i,                \* the loop variable
    pc,               \* "call" | "loop" | "returned" | "raised" | "idle"
    interp_calls,     \* the number of .interp calls made so far
    raised,           \* the exception that left run_trajectory, or NoException
    trajectory_ds,    \* the returned Dataset, or NoDataset
    \* ---- MetDataset (plat/met_handler.py)
    file,             \* the file behind file_path: what each engine does with it
    mpc,              \* "new" | "fallback" | "ready" | "failed" | "idle"
    open_log,         \* the engines open_dataset was called with, in order
    init_raised,      \* the exception that left __init__, or NoException
    ds,               \* self.ds, or NoDataset
    subset_ds,        \* the Dataset the last subset call returned, or NoDataset
    subset_args,      \* the arguments of that call
    subset_of         \* self.ds as it was when that call was made

trajVars == <<starting_point, velocity_field, num_steps, trajectory_lat,
              trajectory_lon, i, pc, interp_calls, raised, trajectory_ds>>
metVars == <<file, mpc, open_log, init_raised, ds, subset_ds,
             subset_args, subset_of>>
vars == <<trajVars, metVars>>

NoException == [kind |-> "none"]
NoDataset == [kind |-> "none"]

----------------------------------------------------------------------------
(* Floats *)

NaN == <<>>
F(x) == <<x>>
IsNaN(f) == f = NaN
\* IEEE addition as far as the model needs it: NaN is absorbing.
FAdd(a, b) == IF IsNaN(a) \/ IsNaN(b) THEN NaN ELSE F(a[1] + b[1])

Abs(x) == IF x < 0 THEN -x ELSE x

----------------------------------------------------------------------------
(* The velocity field and its nearest-neighbour interpolation *)

\* Bounds of the model.
MaxSteps == 2
MaxStart == 2

\* The coordinates of the grid (ascending), and the values a component takes.
GridLat == <<0, 2>>
GridLon == <<0, 2>>
Vel == {-1, 0, 1}
StartCoords == 0 .. MaxStart

Component == [1 .. Len(GridLat) -> [1 .. Len(GridLon) -> Vel]]

\* The index of the coordinate nearest to x; of two equally near ones the
\* lower; 0 when x is NaN or outside the coordinates' extent (the
\* interpolator is built with bounds_error=False and fills with NaN).
NearestIndex(coords, x) ==
    IF IsNaN(x) \/ x[1] < coords[1] \/ x[1] > coords[Len(coords)]
    THEN 0
    ELSE CHOOSE k \in 1 .. Len(coords) :
            /\ \A j \in 1 .. Len(coords) :
                  Abs(coords[k] - x[1]) <= Abs(coords[j] - x[1])
            /\ \A j \in 1 .. (k - 1) :
                  Abs(coords[j] - x[1]) > Abs(coords[k] - x[1])

\* The index of the coordinate nearest to a number x, with no test of the
\* extent: outside it, the edge coordinate.
ClampedIndex(coords, x) ==
    CHOOSE k \in 1 .. Len(coords) :
        /\ \A j \in 1 .. Len(coords) :
              Abs(coords[k] - x[1]) <= Abs(coords[j] - x[1])
        /\ \A j \in 1 .. (k - 1) :
              Abs(coords[j] - x[1]) > Abs(coords[k] - x[1])

\* An interpolation that clamps to the edge of the grid (fill_value
\* 'extrapolate').
InterpClamped(component, lat, lon) ==
    IF IsNaN(lat) \/ IsNaN(lon) THEN NaN
    ELSE F(component[ClampedIndex(GridLat, lat)][ClampedIndex(GridLon, lon)])

\* velocity_field[name].interp(lat=lat, lon=lon, method='nearest').values
Interp(component, lat, lon) ==
    LET a == NearestIndex(GridLat, lat)
        b == NearestIndex(GridLon, lon)
    IN  IF a = 0 \/ b = 0 THEN NaN ELSE F(component[a][b])

----------------------------------------------------------------------------
(* run_trajectory *)

Zeros(n) == [k \in 1 .. n |-> F(0)]

\* np.zeros(num_steps + 1)
Allocate(n) == Zeros(n + 1)

\* A time coordinate that counts from 1.
TimeCoordFromOne(n) == [k \in 1 .. (n + 1) |-> k]

\* range(num_steps + 1), the time coordinate
TimeCoord(n) == [k \in 1 .. (n + 1) |-> k - 1]

\* The position written at index i + 1 (arrays are 1-based here: Python's
\* index i is k = i + 1).
NextLat(lats, k, v) == FAdd(lats[k], v)
NextLon(lons, k, u) == FAdd(lons[k], u)

\* The Datasets holding exactly the data variables of names.
FieldsWith(names) == [names -> Component]

\* A loop that runs one iteration too many.
LoopContinuesInclusive(k, n) == k <= n

\* range(num_steps): whether the loop runs iteration k.
LoopContinues(k, n) == k < n

\* Sampling at the starting point in every iteration.
SamplePointStale(lats, lons, k) == [lat |-> lats[1], lon |-> lons[1]]

\* The point the field is interpolated at in iteration k (1-based).
SamplePoint(lats, lons, k) == [lat |-> lats[k], lon |-> lons[k]]

HistoryLog(sp) == <<"Trajectory simulation started from", sp.lat, sp.lon>>

MetIdle ==
    /\ file = [kind |-> "none"]
    /\ mpc = "idle"
    /\ open_log = <<>>
    /\ init_raised = NoException
    /\ ds = NoDataset
    /\ subset_ds = NoDataset
    /\ subset_args = <<>>
    /\ subset_of = NoDataset

InitTraj ==
    /\ starting_point \in [lat : StartCoords, lon : StartCoords]
    /\ velocity_field \in FieldsWith({"u", "v"}) \cup FieldsWith({"u"})
                                                   \cup FieldsWith({"v"})
    /\ num_steps \in 0 .. MaxSteps
    /\ trajectory_lat = <<>>
    /\ trajectory_lon = <<>>
    /\ i = 0
    /\ pc = "call"
    /\ interp_calls = 0
    /\ raised = NoException
    /\ trajectory_ds = NoDataset
    /\ MetIdle

\* Lines 67-71: allocate both arrays and store the starting point.
Begin ==
    /\ pc = "call"
    /\ trajectory_lat' = [Allocate(num_steps) EXCEPT ![1] = F(starting_point.lat)]
    /\ trajectory_lon' = [Allocate(num_steps) EXCEPT ![1] = F(starting_point.lon)]
    /\ i' = 0
    /\ pc' = "loop"
    /\ UNCHANGED <<starting_point, velocity_field, num_steps, interp_calls,
                   raised, trajectory_ds, metVars>>

\* Lines 74-86, one iteration on a field that holds both components.
Step ==
    /\ pc = "loop"
    /\ LoopContinues(i, num_steps)
    /\ {"u", "v"} \subseteq DOMAIN velocity_field
    /\ LET at == SamplePoint(trajectory_lat, trajectory_lon, i + 1)
           u == Interp(velocity_field["u"], at.lat, at.lon)
           v == Interp(velocity_field["v"], at.lat, at.lon)
       IN  /\ trajectory_lat' =
                 [trajectory_lat EXCEPT ![i + 2] = NextLat(trajectory_lat, i + 1, v)]
           /\ trajectory_lon' =
                 [trajectory_lon EXCEPT ![i + 2] = NextLon(trajectory_lon, i + 1, u)]
    /\ interp_calls' = interp_calls + 2
    /\ i' = i + 1
    /\ UNCHANGED <<starting_point, velocity_field, num_steps, pc, raised,
                   trajectory_ds, metVars>>

\* Lines 77 and 80 on a field that lacks a component: velocity_field['u'] (or
\* ['v'], after u has been interpolated) raises KeyError, which nothing
\* catches.
StepRaises ==
    /\ pc = "loop"
    /\ LoopContinues(i, num_steps)
    /\ ~ ({"u", "v"} \subseteq DOMAIN velocity_field)
    /\ interp_calls' = IF "u" \in DOMAIN velocity_field
                       THEN interp_calls + 1 ELSE interp_calls
    /\ raised' = [kind |-> "KeyError",
                  key |-> IF "u" \in DOMAIN velocity_field THEN "v" ELSE "u"]
    /\ pc' = "raised"
    /\ UNCHANGED <<starting_point, velocity_field, num_steps, trajectory_lat,
                   trajectory_lon, i, trajectory_ds, metVars>>

\* Lines 88-104: the loop is over; build and return the Dataset.
Return ==
    /\ pc = "loop"
    /\ ~ LoopContinues(i, num_steps)
    /\ trajectory_ds' = [kind |-> "Dataset",
                         time |-> TimeCoord(num_steps),
                         lat |-> trajectory_lat,
                         lon |-> trajectory_lon,
                         history |-> HistoryLog(starting_point)]
    /\ pc' = "returned"
    /\ UNCHANGED <<starting_point, velocity_field, num_steps, trajectory_lat,
                   trajectory_lon, i, interp_calls, raised, metVars>>

NextTraj == Begin \/ Step \/ StepRaises \/ Return

SpecTraj == InitTraj /\ [][NextTraj]_vars

----------------------------------------------------------------------------
(* Properties of run_trajectory *)

\* The loop has started (or ended in a return) on a field with u and v.
Integrating ==
    /\ pc \in {"loop", "returned"}
    /\ {"u", "v"} \subseteq DOMAIN velocity_field

\* The grid indices whose coordinate is at minimal distance from the number x.
NearestSet(coords, x) ==
    {k \in 1 .. Len(coords) :
        \A j \in 1 .. Len(coords) :
            Abs(coords[k] - x[1]) <= Abs(coords[j] - x[1])}

InExtent(coords, x) ==
    ~ IsNaN(x) /\ coords[1] <= x[1] /\ x[1] <= coords[Len(coords)]

\* Position k (1-based) is a number pair inside the extent of the grid.
Inside(k) ==
    /\ InExtent(GridLat, trajectory_lat[k])
    /\ InExtent(GridLon, trajectory_lon[k])

\* Position k is a number pair, and outside the extent of the grid.
Outside(k) ==
    /\ ~ IsNaN(trajectory_lat[k])
    /\ ~ IsNaN(trajectory_lon[k])
    /\ ~ Inside(k)

\* Position k + 1 is position k advanced by the (u, v) of a grid point
\* nearest to position k.
EulerFromNearest(k) ==
    \E a \in NearestSet(GridLat, trajectory_lat[k]) :
        \E b \in NearestSet(GridLon, trajectory_lon[k]) :
            /\ trajectory_lat[k + 1] =
                   F(trajectory_lat[k][1] + velocity_field["v"][a][b])
            /\ trajectory_lon[k + 1] =
                   F(trajectory_lon[k][1] + velocity_field["u"][a][b])

StartsAtStart ==
    /\ trajectory_lat[1] = F(starting_point.lat)
    /\ trajectory_lon[1] = F(starting_point.lon)

C2_LengthAndTime ==
    pc = "returned" =>
        /\ Len(trajectory_ds.lat) = num_steps + 1
        /\ Len(trajectory_ds.lon) = num_steps + 1
        /\ Len(trajectory_ds.time) = num_steps + 1
        /\ \A k \in 1 .. (num_steps + 1) : trajectory_ds.time[k] = k - 1

C2_Witness ==
    /\ pc = "returned"
    /\ num_steps = MaxSteps
    /\ Len(trajectory_ds.lat) = MaxSteps + 1

\* C3: with num_steps = 0 the returned trajectory is the starting point alone
\* and no interpolation was made; in general a return follows exactly
\* num_steps sampled steps (two interpolations each).
C3_ZeroStepsNoSample ==
    pc = "returned" =>
        /\ i = num_steps
        /\ interp_calls = 2 * num_steps
        /\ num_steps = 0 =>
              /\ trajectory_ds.lat = <<F(starting_point.lat)>>
              /\ trajectory_ds.lon = <<F(starting_point.lon)>>
              /\ interp_calls = 0

C3_Witness ==
    /\ pc = "returned"
    /\ num_steps = 0
    /\ trajectory_ds.lat = <<F(starting_point.lat)>>
    /\ interp_calls = 0

\* C9: an exception leaving run_trajectory is an IntegrationError carrying the
\* index of the step that failed, and no trajectory is returned.
C9_TypedIntegrationError ==
    pc = "raised" =>
        /\ raised.kind = "IntegrationError"
        /\ raised.step = i
        /\ trajectory_ds = NoDataset

----------------------------------------------------------------------------
(* MetDataset: the constructor and _normalize_variable_names *)

TrajIdle ==
    /\ starting_point = [lat |-> 0, lon |-> 0]
    /\ velocity_field = <<>>
    /\ num_steps = 0
    /\ trajectory_lat = <<>>
    /\ trajectory_lon = <<>>
    /\ i = 0
    /\ pc = "idle"
    /\ interp_calls = 0
    /\ raised = NoException
    /\ trajectory_ds = NoDataset

\* The class attribute, in the dict's (insertion) order.
VARIABLE_MAP ==
    << [std |-> "u", aliases |-> <<"u", "UGRD", "u_wind">>],
       [std |-> "v", aliases |-> <<"v", "VGRD", "v_wind">>],
       [std |-> "w", aliases |-> <<"w", "W", "W_wind", "VVEL">>],
       [std |-> "t", aliases |-> <<"t", "TMP", "temperature">>],
       [std |-> "z", aliases |-> <<"z", "HGT", "geopotential_height">>] >>

\* The variable names a file of the model may hold ("q" is no alias).
FileNames == {"u", "UGRD", "u_wind", "VGRD", "v_wind", "W", "VVEL", "TMP",
              "temperature", "HGT", "q"}

\* What an open_dataset call on the file may do.
Outcomes == {"ok", "ValueError", "OSError"}

\* The coordinates of the file's grid: whole hours (a time range names whole
\* hours too, so a bound parses to the hour it names), and degrees.
TimeAxis == <<0, 1, 2, 3>>
LatAxis == <<30, 40, 50>>
LonAxis == <<-125, -115, -105>>

Reverse(seq) == [k \in 1 .. Len(seq) |-> seq[Len(seq) + 1 - k]]

\* Every cell of the data carries the coordinates it was read at.
CellsOf(time, latitude, longitude) ==
    [c \in (1 .. Len(time)) \X (1 .. Len(latitude)) \X (1 .. Len(longitude))
        |-> <<time[c[1]], latitude[c[2]], longitude[c[3]]>>]

\* A Dataset. from and logged are history variables of the model: the
\* arguments of the subset call that returned it (<<>> when it was read from
\* a file) and the arguments of the subset calls that wrote to its attrs.
Dataset(names, time, latitude, longitude, attrs) ==
    [kind |-> "Dataset", vars |-> names, time |-> time, latitude |-> latitude,
     longitude |-> longitude, data |-> CellsOf(time, latitude, longitude),
     attrs |-> attrs, from |-> <<>>, logged |-> <<>>]

NoAttrs == [k \in {} |-> <<>>]

\* The aliases of a list that the last alias present would pick.
LastPresent(aliases, present) ==
    LET idx == {k \in 1 .. Len(aliases) : aliases[k] \in present}
    IN  IF idx = {} THEN 0
        ELSE CHOOSE k \in idx : \A j \in idx : j <= k

\* Lines 75-78: the index of the first alias of the list among the
\* variables, 0 when there is none.
FirstPresent(aliases, present) ==
    LET idx == {k \in 1 .. Len(aliases) : aliases[k] \in present}
    IN  IF idx = {} THEN 0
        ELSE CHOOSE k \in idx : \A j \in idx : k <= j

\* Lines 73-78: rename_dict, as the set of its <<alias, std_name>> items.
RenameDict(present) ==
    {<<VARIABLE_MAP[m].aliases[FirstPresent(VARIABLE_MAP[m].aliases, present)],
       VARIABLE_MAP[m].std>> :
        m \in {n \in 1 .. Len(VARIABLE_MAP) :
                  FirstPresent(VARIABLE_MAP[n].aliases, present) # 0}}

\* Dataset.rename on the names. (It raises when a new name is also the name
\* of a variable that keeps its name; rename_dict never asks for that: a
\* standard name is the first alias of its own list and of no other.)
Rename(names, rename_dict) ==
    {IF \E r \in rename_dict : r[1] = x
     THEN (CHOOSE r \in rename_dict : r[1] = x)[2]
     ELSE x : x \in names}

\* Lines 64-79.
NormalizeVariableNames(d) ==
    [d EXCEPT !.vars = Rename(d.vars, RenameDict(d.vars))]

\* What open_dataset returns when it succeeds, whatever the engine.
Opened(f) == Dataset(f.vars, TimeAxis, LatAxis, LonAxis, NoAttrs)

\* An except clause that catches everything.
CaughtAny(kind) == TRUE

\* Line 58: except ValueError.
Caught(kind) == kind = "ValueError"

SubsetIdle ==
    /\ subset_ds = NoDataset
    /\ subset_args = <<>>
    /\ subset_of = NoDataset

InitOpen ==
    /\ TrajIdle
    /\ file \in [vars : SUBSET FileNames, cfgrib : Outcomes, default : Outcomes]
    /\ mpc = "new"
    /\ open_log = <<>>
    /\ init_raised = NoException
    /\ ds = NoDataset
    /\ SubsetIdle

\* Lines 56-58 and, when the open succeeds, line 62.
TryCfgrib ==
    /\ mpc = "new"
    /\ open_log' = Append(open_log, "cfgrib")
    /\ \/ /\ file.cfgrib = "ok"
          /\ ds' = NormalizeVariableNames(Opened(file))
          /\ mpc' = "ready"
          /\ UNCHANGED init_raised
       \/ /\ file.cfgrib # "ok"
          /\ Caught(file.cfgrib)
          /\ mpc' = "fallback"
          /\ UNCHANGED <<ds, init_raised>>
       \/ /\ file.cfgrib # "ok"
          /\ ~ Caught(file.cfgrib)
          /\ init_raised' = [kind |-> file.cfgrib, engine |-> "cfgrib"]
          /\ mpc' = "failed"
          /\ UNCHANGED ds
    /\ UNCHANGED <<file, subset_ds, subset_args, subset_of, trajVars>>

\* Lines 59-60 and, when the open succeeds, line 62.
Fallback ==
    /\ mpc = "fallback"
    /\ open_log' = Append(open_log, "default")
    /\ \/ /\ file.default = "ok"
          /\ ds' = NormalizeVariableNames(Opened(file))
          /\ mpc' = "ready"
          /\ UNCHANGED init_raised
       \/ /\ file.default # "ok"
          /\ init_raised' = [kind |-> file.default, engine |-> "default"]
          /\ mpc' = "failed"
          /\ UNCHANGED ds
    /\ UNCHANGED <<file, subset_ds, subset_args, subset_of, trajVars>>

NextOpen == TryCfgrib \/ Fallback

SpecOpen == InitOpen /\ [][NextOpen]_vars

----------------------------------------------------------------------------
(* Properties of the constructor *)

AliasesOf(m) == {VARIABLE_MAP[m].aliases[k] : k \in 1 .. Len(VARIABLE_MAP[m].aliases)}

\* For entry m of the table: the first alias among the file's variables was
\* renamed to the standard name, the later ones were left alone; with no
\* alias in the file the standard name is not set.
NormalizedEntry(m) ==
    LET std == VARIABLE_MAP[m].std
        aliases == VARIABLE_MAP[m].aliases
        here == {k \in 1 .. Len(aliases) : aliases[k] \in file.vars}
    IN  IF here = {}
        THEN std \notin ds.vars
        ELSE /\ std \in ds.vars
             /\ \A k \in here :
                   IF \E j \in here : j < k
                   THEN aliases[k] \in ds.vars
                   ELSE aliases[k] = std \/ aliases[k] \notin ds.vars

\* C4: after a successful construction every entry of the alias table is
\* normalized first-match-wins, names that are no alias are kept, and UGRD,
\* VGRD, TMP become exactly u, v, t; a missing standard name is no error: a
\* construction fails only when the opens failed.
C4_FirstAliasRenamed ==
    /\ mpc = "ready" =>
          /\ \A m \in 1 .. Len(VARIABLE_MAP) : NormalizedEntry(m)
          /\ \A x \in file.vars :
                (\A m \in 1 .. Len(VARIABLE_MAP) : x \notin AliasesOf(m))
                    => x \in ds.vars
          /\ Cardinality(ds.vars) = Cardinality(file.vars)
          /\ file.vars = {"UGRD", "VGRD", "TMP"} => ds.vars = {"u", "v", "t"}
    /\ mpc = "failed" => file.cfgrib # "ok" /\ (Caught(file.cfgrib) => file.default # "ok")

\* A file with two aliases of u and none of w was opened: UGRD became u,
\* u_wind stayed, w is not set.
C4_Witness ==
    /\ mpc = "ready"
    /\ {"UGRD", "u_wind"} \subseteq file.vars
    /\ "u" \notin file.vars
    /\ "W" \notin file.vars /\ "VVEL" \notin file.vars
    /\ "u" \in ds.vars /\ "u_wind" \in ds.vars /\ "UGRD" \notin ds.vars
    /\ "w" \notin ds.vars

ConstructorDone == mpc \in {"ready", "failed"}

----------------------------------------------------------------------------
(* MetDataset.subset *)

\* A bound of the model: the subset calls whose lines one history may hold.
MaxCalls == 2

\* An attrs['history'] is a sequence of tokens: a line of text, the newline,
\* or the line an f-string formats from the arguments of subset.
Text(t) == [text |-> t, args |-> <<>>]
Newline == Text("\n")
Histories == { <<>>,
               <<Text("created")>>,
               <<Text("created"), Newline, Text("regridded")>> }

\* The arguments a call of the model may pass: (start, end) pairs, between
\* grid values and on them, and for the latitude, which a file may hold from
\* north to south, also from the larger to the smaller.
TimeRanges == {<<1, 2>>, <<0, 3>>}
LatBounds == {<<35, 45>>, <<45, 35>>}
LonBounds == {<<-120, -110>>, <<-125, -105>>}

\* pandas: an index is monotonic increasing when no element is smaller than
\* the one before it; an index of at most one element is.
IsMonotonicIncreasing(index) ==
    \A k \in 1 .. (Len(index) - 1) : index[k] <= index[k + 1]

\* Index.slice_indexer(lo, hi) on a monotonic index of distinct labels: the
\* 0-based, half-open positions [start, stop) of the label slice. On an
\* increasing index these are searchsorted(lo, 'left') and
\* searchsorted(hi, 'right'); on a decreasing one the same searches on the
\* reversed index, counted from the end.
SliceIndexer(index, lo, hi) ==
    IF IsMonotonicIncreasing(index)
    THEN [start |-> Cardinality({k \in 1 .. Len(index) : index[k] < lo}),
          stop |-> Cardinality({k \in 1 .. Len(index) : index[k] <= hi})]
    ELSE [start |-> Cardinality({k \in 1 .. Len(index) : index[k] > lo}),
          stop |-> Cardinality({k \in 1 .. Len(index) : index[k] >= hi})]

\* seq[start:stop]
Take(seq, sl) ==
    IF sl.stop <= sl.start THEN <<>> ELSE SubSeq(seq, sl.start + 1, sl.stop)

\* Lines 112-118: self.ds.sel(time=..., latitude=..., longitude=...); every
\* axis and the data are cut by the positions of that axis's label slice.
Sel(d, time_range, lat_bounds, lon_bounds) ==
    LET ts == SliceIndexer(d.time, time_range[1], time_range[2])
        las == SliceIndexer(d.latitude, lat_bounds[1], lat_bounds[2])
        los == SliceIndexer(d.longitude, lon_bounds[1], lon_bounds[2])
        time == Take(d.time, ts)
        latitude == Take(d.latitude, las)
        longitude == Take(d.longitude, los)
    IN  [d EXCEPT
            !.time = time,
            !.latitude = latitude,
            !.longitude = longitude,
            !.data = [c \in (1 .. Len(time)) \X (1 .. Len(latitude))
                                              \X (1 .. Len(longitude))
                        |-> d.data[<<c[1] + ts.start, c[2] + las.start,
                                     c[3] + los.start>>]]]

\* Lines 121-124: the f-string.
SubsetLog(time_range, lat_bounds, lon_bounds) ==
    [text |-> "Subsetted data to",
     args |-> <<time_range, lat_bounds, lon_bounds>>]

\* A history that keeps only the new entry.
HistoryOverwritten(attrs, history_log) == <<history_log>>

\* Lines 127-133: the new value of attrs['history'].
HistoryAppended(attrs, history_log) ==
    IF "history" \in DOMAIN attrs /\ attrs["history"] # <<>>
    THEN attrs["history"] \o <<Newline, history_log>>
    ELSE <<history_log>>

WithHistory(attrs, h) == [k \in DOMAIN attrs \cup {"history"} |-> h]

InitSubset ==
    /\ TrajIdle
    /\ file \in [vars : {{"UGRD", "VGRD", "TMP"}},
                 cfgrib : {"ValueError"},
                 default : {"ok"},
                 time : {TimeAxis},
                 latitude : {LatAxis, Reverse(LatAxis)},
                 longitude : {LonAxis},
                 attrs : {NoAttrs} \cup [{"history"} -> Histories]]
    /\ mpc = "ready"
    /\ open_log = <<"cfgrib", "default">>
    /\ init_raised = NoException
    /\ ds = NormalizeVariableNames(
                Dataset(file.vars, file.time, file.latitude, file.longitude,
                        file.attrs))
    /\ SubsetIdle

\* self.ds as the constructor left it.
InitialDataset ==
    NormalizeVariableNames(
        Dataset(file.vars, file.time, file.latitude, file.longitude, file.attrs))

\* Lines 112-135, one call. sel hands its result the attrs of self.ds; an
\* xarray whose sel does not copy them makes line 131 or 133 write to the
\* attrs of self.ds as well, so both outcomes are allowed.
Subset(time_range, lat_bounds, lon_bounds) ==
    /\ mpc = "ready"
    /\ Len(ds.logged) < MaxCalls
    /\ LET selected == Sel(ds, time_range, lat_bounds, lon_bounds)
           history_log == SubsetLog(time_range, lat_bounds, lon_bounds)
           attrs == WithHistory(selected.attrs,
                                HistoryAppended(selected.attrs, history_log))
           logged == Append(ds.logged, <<time_range, lat_bounds, lon_bounds>>)
       IN  /\ subset_ds' = [selected EXCEPT
                               !.attrs = attrs,
                               !.from = <<time_range, lat_bounds, lon_bounds>>,
                               !.logged = logged]
           /\ \/ UNCHANGED ds
              \/ /\ ds.attrs # NoAttrs
                 /\ ds' = [ds EXCEPT !.attrs = attrs, !.logged = logged]
    /\ subset_args' = <<time_range, lat_bounds, lon_bounds>>
    /\ subset_of' = ds
    /\ UNCHANGED <<file, mpc, open_log, init_raised, trajVars>>

\* The caller hands the returned Dataset to the handler (met.ds = subset_ds):
\* the way to subset the result of a subset.
Rewrap ==
    /\ mpc = "ready"
    /\ subset_ds # NoDataset
    /\ ds # subset_ds
    /\ ds' = subset_ds
    /\ UNCHANGED <<file, mpc, open_log, init_raised, subset_ds, subset_args,
                   subset_of, trajVars>>

NextSubset ==
    \/ \E time_range \in TimeRanges : \E lat_bounds \in LatBounds :
          \E lon_bounds \in LonBounds :
             Subset(time_range, lat_bounds, lon_bounds)
    \/ Rewrap

SpecSubset == InitSubset /\ [][NextSubset]_vars

----------------------------------------------------------------------------
(* Properties of subset *)

Between(seq, lo, hi) == SelectSeq(seq, LAMBDA c : lo <= c /\ c <= hi)

History(d) == IF "history" \in DOMAIN d.attrs THEN d.attrs["history"] ELSE <<>>

\* The entries of a history: its tokens other than the newlines.
Entries(h) == SelectSeq(h, LAMBDA t : t # Newline)

\* A history is entries separated by single newlines.
NewlineSeparated(h) ==
    /\ h # <<>> => Len(h) % 2 = 1
    /\ \A k \in 1 .. Len(h) : (h[k] = Newline) <=> (k % 2 = 0)

LogOf(args) == SubsetLog(args[1], args[2], args[3])

\* C5: the returned Dataset keeps, on each of the three axes, exactly the
\* coordinate values c with lower <= c <= upper, in their order.
C5_InclusiveOnEveryAxis ==
    subset_ds # NoDataset =>
        /\ subset_ds.time =
              Between(subset_of.time, subset_args[1][1], subset_args[1][2])
        /\ subset_ds.latitude =
              Between(subset_of.latitude, subset_args[2][1], subset_args[2][2])
        /\ subset_ds.longitude =
              Between(subset_of.longitude, subset_args[3][1], subset_args[3][2])

\* C6: a call of subset leaves the history it found as a prefix of the
\* returned history and adds a newline and its own line, or its line alone
\* when it found no history; a history holds the entries of the file's
\* history followed by one line for every call that wrote to it, in order.
C6_HistoryAppendOnly ==
    subset_ds # NoDataset =>
        LET before == History(subset_of)
            after == History(subset_ds)
            found == History(InitialDataset)
        IN  /\ "history" \in DOMAIN subset_ds.attrs
            /\ Len(after) = IF before = <<>> THEN 1 ELSE Len(before) + 2
            /\ SubSeq(after, 1, Len(before)) = before
            /\ after[Len(after)] = LogOf(subset_args)
            /\ before # <<>> => after[Len(after) - 1] = Newline
            /\ NewlineSeparated(after)
            /\ Entries(after) =
                  Entries(found) \o [k \in 1 .. Len(subset_ds.logged) |->
                                        LogOf(subset_ds.logged[k])]

\* A second call appended to a history of two entries and one subset line.
C6_Witness ==
    /\ subset_ds # NoDataset
    /\ Len(subset_ds.logged) = 2
    /\ Len(History(InitialDataset)) = 3
    /\ Len(History(subset_ds)) = 7
    /\ subset_ds.logged[1] # subset_ds.logged[2]

\* C7: subset called with the bounds that produced self.ds returns the
\* coordinates and data of self.ds, and a history that is the history of
\* self.ds with one more line, equal to the line the first call added.
C7_SecondCallIdempotent ==
    (subset_ds # NoDataset /\ subset_of.from = subset_args) =>
        /\ subset_ds.time = subset_of.time
        /\ subset_ds.latitude = subset_of.latitude
        /\ subset_ds.longitude = subset_of.longitude
        /\ subset_ds.data = subset_of.data
        /\ History(subset_ds) =
              History(subset_of) \o <<Newline, LogOf(subset_args)>>
        /\ History(subset_of)[Len(History(subset_of))] = LogOf(subset_args)

====
